---- MODULE Spec2Model ----
(***************************************************************************)
(* A model of mhue (src/mhue.py): the command-line program that blinks a   *)
(* Philips Hue lamp in Morse code and puts the lamp back afterwards.       *)
(*                                                                         *)
(* The program is one thread.  Its state is the position of that thread    *)
(* (pc and the loop indices), the objects it holds (the Speed, the         *)
(* translated message, the Lamp's _initial_state, the desired state), the  *)
(* lamp behind the bridge, and a history of every remote call and every    *)
(* sleep it has made (trace).                                              *)
(*                                                                         *)
(* Representation:                                                         *)
(*   - a text is a sequence of characters, each a one-character string;    *)
(*     the six non-ASCII letters of the table are spelled out in ASCII     *)
(*     ("Agrave", "AE", "Oslash", "Aring", "Auml", "Ouml" and their lower   *)
(*     case forms "agrave", ...), and so are the other characters outside  *)
(*     ASCII ("szlig" is the sharp s, "x85" and "u2028" are the characters *)
(*     U+0085 and U+2028);                                                 *)
(*   - a Morse code is a sequence of "." and "-";                          *)
(*   - a duration is the exact fraction [n |-> numerator, d |-> denom.] of *)
(*     a second, not reduced;                                              *)
(*   - None is the empty sequence <<>> and a present optional value v is   *)
(*     <<v>>;                                                              *)
(*   - an xy coordinate is held in units of 1/XYUnit; NaN stands for the   *)
(*     float nan given on the command line and JsonNaN for the nan read    *)
(*     from the bridge, two objects that Python tells apart;               *)
(*   - a remote call is recorded with how it ended: "ok", a bridge error   *)
(*     ("hue_error", "late_error"), data without what was asked for        *)
(*     ("malformed") or an exception of the transport ("transport").       *)
(*                                                                         *)
(* Spec is the whole program.  TranslateSpec and LampStateSpec apply       *)
(* translate and LampState on their own to a wider range of arguments.     *)
(***************************************************************************)
EXTENDS Integers, Sequences, FiniteSets, TLC

\* ------------------------------------------------------------------ bounds

\* Longest text given to --text in a run where every remote call succeeds and
\* nobody else touches the lamp.
MaxLen == 3
\* Longest text given to --text in a run where remote calls may fail or
\* somebody else may change the lamp.
MaxFaultLen == 1
\* Longest text given to --text in a run that is also given an override
\* (--brightness, --hue, --saturation, --xy, --temperature).
MaxOverrideLen == 2
\* Largest --repeat.
MaxRepeat == 2
\* How many failed remote calls and foreign lamp changes one run may see.
MaxFaults == 1
\* Longest text given to translate when it is tried on its own.
MaxTranslateLen == 4

\* ------------------------------------------------------- optional values

None == <<>>

Some(v) == <<v>>

\* ------------------------------------------------------------- durations

\* The fraction n/d of a second.
Frac(n, d) == [n |-> n, d |-> d]

\* k * q, as Python's k * q on a float q.
Times(k, q) == Frac(k * q.n, q.d)

\* p == q on two durations.
SameDur(p, q) == p.n * q.d = q.n * p.d

\* Changing states too quickly breaks lamps
STATE_CHANGE_SECONDS == 1

\* ----------------------------------------------------------------- Speed

\* Speed.wpm setter: every timing from the words per minute.
Speed(w) ==
    LET unit_seconds == Frac(60, 50 * w)
        dot == unit_seconds
        space == Times(7, dot)
    IN  [ wpm |-> w,
          unit_seconds |-> unit_seconds,
          dot |-> dot,
          dash |-> Times(3, dot),
          letter_space |-> Times(3, dot),
          space |-> space,
          repeat_pause |-> Times(3, space) ]

\* The Speed before line 554 has run.
NoSpeed == Speed(15)

\* ------------------------------------------------------------ Morse table

M ==
    "A" :> <<".", "-">> @@
    "B" :> <<"-", ".", ".", ".">> @@
    "C" :> <<"-", ".", "-", ".">> @@
    "D" :> <<"-", ".", ".">> @@
    "E" :> <<".">> @@
    "F" :> <<".", ".", "-", ".">> @@
    "G" :> <<"-", "-", ".">> @@
    "H" :> <<".", ".", ".", ".">> @@
    "I" :> <<".", ".">> @@
    "J" :> <<".", "-", "-", "-">> @@
    "K" :> <<"-", ".", "-">> @@
    "L" :> <<".", "-", ".", ".">> @@
    "M" :> <<"-", "-">> @@
    "N" :> <<"-", ".">> @@
    "O" :> <<"-", "-", "-">> @@
    "P" :> <<".", "-", "-", ".">> @@
    "Q" :> <<"-", "-", ".", "-">> @@
    "R" :> <<".", "-", ".">> @@
    "S" :> <<".", ".", ".">> @@
    "T" :> <<"-">> @@
    "U" :> <<".", ".", "-">> @@
    "V" :> <<".", ".", ".", "-">> @@
    "W" :> <<".", "-", "-">> @@
    "X" :> <<"-", ".", ".", "-">> @@
    "Y" :> <<"-", ".", "-", "-">> @@
    "Z" :> <<"-", "-", ".", ".">> @@
    "1" :> <<".", "-", "-", "-", "-">> @@
    "2" :> <<".", ".", "-", "-", "-">> @@
    "3" :> <<".", ".", ".", "-", "-">> @@
    "4" :> <<".", ".", ".", ".", "-">> @@
    "5" :> <<".", ".", ".", ".", ".">> @@
    "6" :> <<"-", ".", ".", ".", ".">> @@
    "7" :> <<"-", "-", ".", ".", ".">> @@
    "8" :> <<"-", "-", "-", ".", ".">> @@
    "9" :> <<"-", "-", "-", "-", ".">> @@
    "0" :> <<"-", "-", "-", "-", "-">> @@
    "&" :> <<".", "-", ".", ".", ".">> @@
    "'" :> <<".", "-", "-", "-", "-", ".">> @@
    "@" :> <<".", "-", "-", ".", "-", ".">> @@
    ")" :> <<"-", ".", "-", "-", ".", "-">> @@
    "(" :> <<"-", ".", "-", "-", ".">> @@
    ":" :> <<"-", "-", "-", ".", ".", ".">> @@
    "," :> <<"-", "-", ".", ".", "-", "-">> @@
    "=" :> <<"-", ".", ".", ".", "-">> @@
    "!" :> <<"-", ".", "-", ".", "-", "-">> @@
    "." :> <<".", "-", ".", "-", ".", "-">> @@
    "-" :> <<"-", ".", ".", ".", ".", "-">> @@
    "+" :> <<".", "-", ".", "-", ".">> @@
    "dquote" :> <<".", "-", ".", ".", "-", ".">> @@
    "?" :> <<".", ".", "-", "-", ".", ".">> @@
    "/" :> <<"-", ".", ".", "-", ".">> @@
    "Agrave" :> <<".", "-", "-", ".", "-">> @@
    "AE" :> <<".", "-", ".", "-">> @@
    "Oslash" :> <<"-", "-", "-", ".">> @@
    "Aring" :> <<".", "-", "-", ".", "-">> @@
    "Auml" :> <<".", "-", ".", "-">> @@
    "Ouml" :> <<"-", "-", "-", ".">>

\* str.upper, character by character: the upper case form of every character
\* whose upper case form holds a character of the table M.  It is a sequence,
\* because str.upper turns some characters into several: the sharp s
\* ("szlig") into SS, the ligatures ("fflig", "filig", ...) into their letters,
\* a letter with a mark that has no upper case form of its own ("jcaron",
\* "u1e96", ...) into the letter and the combining mark ("u030c", ...).  The
\* dotless i ("inodot") and the long s ("longs") become I and S.  A character
\* that is not listed either is its own upper case form (the digits, the
\* punctuation, the upper case letters, the Kelvin sign "Kelvin" and the
\* Angstrom sign "Angstrom", which are upper case already) or has an upper
\* case form the table lacks as it lacks the character itself; upper leaves it
\* as it is.
ToUpper ==
    "a" :> <<"A">> @@ "b" :> <<"B">> @@ "c" :> <<"C">> @@ "d" :> <<"D">> @@
    "e" :> <<"E">> @@ "f" :> <<"F">> @@ "g" :> <<"G">> @@ "h" :> <<"H">> @@
    "i" :> <<"I">> @@ "j" :> <<"J">> @@ "k" :> <<"K">> @@ "l" :> <<"L">> @@
    "m" :> <<"M">> @@ "n" :> <<"N">> @@ "o" :> <<"O">> @@ "p" :> <<"P">> @@
    "q" :> <<"Q">> @@ "r" :> <<"R">> @@ "s" :> <<"S">> @@ "t" :> <<"T">> @@
    "u" :> <<"U">> @@ "v" :> <<"V">> @@ "w" :> <<"W">> @@ "x" :> <<"X">> @@
    "y" :> <<"Y">> @@ "z" :> <<"Z">> @@
    "agrave" :> <<"Agrave">> @@ "ae" :> <<"AE">> @@
    "oslash" :> <<"Oslash">> @@ "aring" :> <<"Aring">> @@
    "auml" :> <<"Auml">> @@ "ouml" :> <<"Ouml">> @@
    "szlig" :> <<"S", "S">> @@ "inodot" :> <<"I">> @@ "longs" :> <<"S">> @@
    "napos" :> <<"u02bc", "N">> @@ "jcaron" :> <<"J", "u030c">> @@
    "u1e96" :> <<"H", "u0331">> @@ "u1e97" :> <<"T", "u0308">> @@
    "u1e98" :> <<"W", "u030a">> @@ "u1e99" :> <<"Y", "u030a">> @@
    "u1e9a" :> <<"A", "u02be">> @@
    "fflig" :> <<"F", "F">> @@ "filig" :> <<"F", "I">> @@
    "fllig" :> <<"F", "L">> @@ "ffilig" :> <<"F", "F", "I">> @@
    "ffllig" :> <<"F", "F", "L">> @@ "longstlig" :> <<"S", "T">> @@
    "stlig" :> <<"S", "T">>

\* The characters str.split() splits on, the 29 characters str.isspace() holds
\* of: blank, tab, line feed, carriage return, form feed, and by code point
\* U+000B, U+001C to U+001F, U+0085, U+00A0, U+1680, U+2000 to U+200A, U+2028,
\* U+2029, U+202F, U+205F and U+3000.
Whitespace ==
    {" ", "\t", "\n", "\r", "\f", "x0b", "x1c", "x1d", "x1e", "x1f", "x85", "xa0",
     "u1680", "u2000", "u2001", "u2002", "u2003", "u2004", "u2005", "u2006",
     "u2007", "u2008", "u2009", "u200a", "u2028", "u2029", "u202f", "u205f",
     "u3000"}

RECURSIVE upper(_)
\* msg.upper(): the upper case forms of the characters of msg, one after the
\* other; the result can be longer than msg.
upper(msg) ==
    IF msg = <<>>
    THEN <<>>
    ELSE (IF Head(msg) \in DOMAIN ToUpper THEN ToUpper[Head(msg)] ELSE <<Head(msg)>>)
         \o upper(Tail(msg))

RECURSIVE splitFrom(_, _, _)
\* msg.split(): the maximal runs of non-whitespace characters of msg[k..],
\* cur being the run read so far.
splitFrom(msg, k, cur) ==
    IF k > Len(msg)
    THEN IF cur = <<>> THEN <<>> ELSE <<cur>>
    ELSE IF msg[k] \in Whitespace
         THEN (IF cur = <<>> THEN <<>> ELSE <<cur>>) \o splitFrom(msg, k + 1, <<>>)
         ELSE splitFrom(msg, k + 1, Append(cur, msg[k]))

split(msg) == splitFrom(msg, 1, <<>>)

RECURSIVE translateWord(_)
\* The inner loop of translate: the code of every character the table has.
translateWord(word) ==
    IF word = <<>>
    THEN <<>>
    ELSE (IF Head(word) \in DOMAIN M THEN <<M[Head(word)]>> ELSE <<>>)
         \o translateWord(Tail(word))

\* A translate that leaves out the words no character of which has a code.
translate_DropEmpty(msg) ==
    LET words == split(upper(msg))
    IN  SelectSeq([k \in 1..Len(words) |-> translateWord(words[k])],
                  LAMBDA morse_word : morse_word # <<>>)

\* translate(msg): a list of words, each a list of characters, each a list of
\* dots and dashes.
translate(msg) ==
    LET words == split(upper(msg))
    IN  [k \in 1..Len(words) |-> translateWord(words[k])]

\* ------------------------------------------------------------- LampState

\* nan, the one value of the model that is not a number.  Python tells one nan
\* object from another: nan == nan is False, but two lists (and two LampStates)
\* that hold the same nan object in the same place are equal, because the
\* comparison of list elements tries identity first.  So the model has one
\* value per nan object, and equality of the model's values is Python's ==
\* on lists and LampStates.  No number of the model is this small.
\*
\* NaN is the float("nan") that --xy makes of the argument nan (type=float).
NaN == -1000000

\* JsonNaN is the nan that res.json() makes of a NaN in the bridge's answer:
\* the JSON decoder has one nan object and returns it every time, so the nan
\* of one read is the nan of the next, and neither is the nan of --xy.
JsonNaN == -1000001

IsNaN(x) == x \in {NaN, JsonNaN}

\* a < b as Python evaluates it: False when either side is nan.
Less(a, b) == ~IsNaN(a) /\ ~IsNaN(b) /\ a < b

\* min(a, b): the first argument unless the second is smaller.
Min2(a, b) == IF Less(b, a) THEN b ELSE a

\* max(a, b): the first argument unless the second is larger.
Max2(a, b) == IF Less(a, b) THEN b ELSE a

clamp(min_x, max_x, x) == Max2(Min2(x, max_x), min_x)

\* How many model units make the xy coordinate 1.
XYUnit == 10

\* xy[:2]
FirstTwo(xy) == SubSeq(xy, 1, Min2(2, Len(xy)))

\* LampState.__init__: optional arguments are None or Some(v).
LampState(on, bri, ct, hue, sat, xy) ==
    [ on |-> on,
      ct |-> clamp(154, 500, ct),
      bri |-> clamp(0, 254, bri),
      hue |-> IF hue # None THEN Some(clamp(0, 65535, hue[1])) ELSE None,
      sat |-> IF sat # None THEN Some(clamp(0, 254, sat[1])) ELSE None,
      xy |-> IF xy # None
             THEN Some([k \in 1..Len(FirstTwo(xy[1])) |->
                            clamp(0, 1 * XYUnit, FirstTwo(xy[1])[k])])
             ELSE None ]

\* LampState(**json["state"]) on the state object the bridge returns.
LampStateOf(s) == LampState(s.on, s.bri, s.ct, s.hue, s.sat, s.xy)

\* dataclasses.replace(state, **{k: v for k, v in passed.items() if v is not None})
replace(state, passed) ==
    LampState(state.on,
              IF passed.bri # None THEN passed.bri[1] ELSE state.bri,
              IF passed.ct # None THEN passed.ct[1] ELSE state.ct,
              IF passed.hue # None THEN passed.hue ELSE state.hue,
              IF passed.sat # None THEN passed.sat ELSE state.sat,
              IF passed.xy # None THEN passed.xy ELSE state.xy)

\* ------------------------------------------------------------ the bridge

\* The body of the PUT that Lamp.set_state sends.
SetStateBody(state) ==
    [ on |-> state.on, bri |-> state.bri, ct |-> state.ct, hue |-> state.hue,
      sat |-> state.sat, xy |-> state.xy,
      transitiontime |-> STATE_CHANGE_SECONDS * 10 ]

\* The body of the PUT that Lamp.set_on sends.
SetOnBody(on) == [on |-> on, transitiontime |-> 0]

\* How a write can end.  The bridge answers a PUT with an array that has one
\* entry per attribute of the body, in the body's order:
\*   "ok"         every entry reports success and the bridge applies the body;
\*   "hue_error"  the first entry is an error and the bridge applies nothing;
\*   "late_error" the first entry (on) reports success and is applied, the
\*                entry of a later attribute is an error and the attributes
\*                after on are not applied; it takes a body with attributes of
\*                the state after on, which set_state sends and set_on does not;
\*   "transport"  the request fails and raise_for_status / res.json() raises.
WriteOutcomes(b, body) ==
    {"ok"} \cup (IF b > 0 THEN {"hue_error", "transport"} ELSE {})
           \cup (IF b > 0 /\ DOMAIN body # {"on", "transitiontime"}
                 THEN {"late_error"} ELSE {})

\* The write outcomes whose response array holds an error entry.
ErrorPayloads == {"hue_error", "late_error"}

\* How a read can end:
\*   "ok"         the lamp's object with its state comes back;
\*   "hue_error"  the bridge answers with an error array: contains_hue_error
\*                prints it and json.get raises (a list has no get);
\*   "malformed"  an object without a usable state comes back and LampState(**...)
\*                raises;
\*   "transport"  the request fails and S.get or res.json() raises.
ReadOutcomes(b) ==
    {"ok"} \cup (IF b > 0 THEN {"hue_error", "malformed", "transport"} ELSE {})

\* The lamp after the bridge has handled a PUT with this body.
Bridge(l, body, outcome) ==
    IF outcome = "ok"
    THEN [f \in DOMAIN l |-> IF f \in DOMAIN body THEN body[f] ELSE l[f]]
    ELSE IF outcome = "late_error"
         THEN [l EXCEPT !.on = body.on]
         ELSE l

\* contains_hue_error: the line printed when json[0] carries an error.
HueErrorLine(context) == <<"ERROR: Bridge responded with error", context>>

\* A contains_hue_error that looks at every entry of the array.
contains_hue_error_AnyEntry(outcome) == outcome \in {"hue_error", "late_error"}

\* contains_hue_error(json, context): json is a list, it is not empty and its
\* first entry carries an error.
contains_hue_error(outcome) == outcome = "hue_error"

\* --------------------------------------------------------------- inputs

\* The characters of the texts tried: a one-symbol letter, a two-symbol
\* letter in lower case, a character the table lacks, and a blank.
Alphabet == {"E", "a", "#", " "}

Texts(n) == UNION {[1..k -> Alphabet] : k \in 0..n}

\* The None that argparse leaves in args.wpm and args.repeat when --wpm or
\* --repeat is given without a value (nargs="?"): not a number, and no number
\* of the model is this large.  None <= 0 and range(None) raise TypeError.
NoValue == 1000000

\* The values of --wpm tried.
Wpms == {-1, 0, 20, NoValue}

\* The values of --repeat tried.
Repeats == (0..MaxRepeat) \cup {NoValue}

\* The lamps tried: a white lamp (no hue, sat, xy) and a colour lamp, on or off.
Lamps ==
    { [on |-> o, bri |-> 100, ct |-> 300, hue |-> None, sat |-> None, xy |-> None] :
        o \in BOOLEAN }
    \cup
    { [on |-> o, bri |-> 100, ct |-> 300, hue |-> Some(5), sat |-> Some(6),
       xy |-> Some(<<3, 4>>)] : o \in BOOLEAN }

NoOverride == [bri |-> None, hue |-> None, sat |-> None, xy |-> None, ct |-> None]

\* The values of --brightness, --hue, --saturation, --xy, --temperature tried:
\* none, a brightness the lamp already has, values out of range.
Overrides ==
    { NoOverride,
      [NoOverride EXCEPT !.bri = Some(100)],
      [NoOverride EXCEPT !.bri = Some(999)],
      [NoOverride EXCEPT !.bri = Some(100), !.hue = Some(-5)],
      [NoOverride EXCEPT !.sat = Some(300), !.ct = Some(100)],
      [NoOverride EXCEPT !.xy = Some(<<20, -10, 7>>)] }

\* The overrides tried in a run where remote calls may fail or somebody else
\* may change the lamp: none, and one that differs from what the lamp has.
FaultOverrides == { NoOverride, [NoOverride EXCEPT !.bri = Some(999)] }

\* The overrides tried together with the text t when b failures are allowed.
OverridesFor(t, b) ==
    IF b > 0
    THEN FaultOverrides
    ELSE IF Len(t) <= MaxOverrideLen THEN Overrides ELSE {NoOverride}

\* What somebody else may do to the lamp during the session.
ForeignBodies == { [bri |-> 50], [on |-> TRUE] }

\* ---------------------------------------------------------------- state

VARIABLES
    pc,             \* where the program is
    args,           \* setup, stdin, writable, config, list, wpm, playable (--text and --id given)
    text,           \* args.text
    repeat,         \* args.repeat
    passed,         \* passed_values
    speed,          \* speed
    msg,            \* translate(args.text)
    lamp,           \* the state of the lamp behind the bridge
    initial_state,  \* Lamp._initial_state: None or Some(LampState)
    desired_state,  \* desired_state: None or Some(LampState)
    current,        \* __exit__'s current_state: None or Some(LampState)
    currently_on,   \* __exit__'s currently_on: None or Some(bool)
    rep, wi, ci, j, \* loop indices: repeat, word of message, character of word, symbol
    exc,            \* an exception raised in the with body is in flight
    status,         \* "running", "exit0", "exit1", "raised"
    stderr,         \* the lines printed by eprint
    trace,          \* every remote call and sleep made, in order
    budget,         \* failed remote calls and foreign changes still allowed
    foreign,        \* how many foreign changes the lamp has seen
    saved           \* setup has written the config file

vars == << pc, args, text, repeat, passed, speed, msg, lamp, initial_state,
           desired_state, current, currently_on, rep, wi, ci, j, exc, status,
           stderr, trace, budget, foreign, saved >>

\* One entry of the trace: the phase of the program, the call, its argument
\* (a PUT's body, a sleep's duration) and how it ended.
Ev(ph, op, arg, resp) == [ph |-> ph, op |-> op, arg |-> arg, resp |-> resp]

\* What Config.from_json_path(args.config_file) meets:
\*   "loaded"   the file is there and holds an object with ip_address and
\*              username, nothing less and nothing more;
\*   "missing"  no file at the path;
\*   "raises"   --config-file was given without a value (the path is None and
\*              os.path.exists raises), or the file is there and cannot be
\*              read, is not JSON, or is not an object with exactly the two
\*              fields (json.loads or Config(**...) raises).
ConfigFiles == {"loaded", "missing", "raises"}

\* The command lines and their surroundings:
\*   setup     --setup IP was given;
\*   stdin     standard input has a line for input() (FALSE: it is at end of
\*             file);
\*   writable  open(args.output, "w") succeeds (FALSE: --output had no value,
\*             or names a path that cannot be written);
\*   config    what is at args.config_file;
\*   list      --list was given;
\*   playable  --text and --id were given;
\*   wpm       --wpm.
\* stdin and writable matter to setup alone; without --setup they are left
\* at TRUE.
ArgsTried ==
    { a \in [ setup : BOOLEAN, stdin : BOOLEAN, writable : BOOLEAN, list : BOOLEAN,
              config : ConfigFiles, playable : BOOLEAN, wpm : Wpms ] :
        ~a.setup => (a.stdin /\ a.writable) }

Init ==
    /\ pc = "setup"
    /\ args \in ArgsTried
    /\ text = <<>>
    /\ repeat = 0
    /\ passed = NoOverride
    /\ speed = NoSpeed
    /\ msg = <<>>
    /\ lamp \in Lamps
    /\ initial_state = None
    /\ desired_state = None
    /\ current = None
    /\ currently_on = None
    /\ rep = 0 /\ wi = 0 /\ ci = 0 /\ j = 0
    /\ exc = FALSE
    /\ status = "running"
    /\ stderr = <<>>
    /\ trace = <<>>
    /\ budget \in 0..MaxFaults
    /\ foreign = 0
    /\ saved = FALSE

\* ------------------------------------------------------------ __main__

\* How the POST of handshake can end:
\*   "ok"         the bridge answers with a success entry that holds a username;
\*   "hue_error"  the bridge answers with an error array (the button was not
\*                pressed): contains_hue_error prints it, handshake returns None;
\*   "malformed"  the answer holds neither an error nor a username (an empty
\*                array): handshake returns None and nothing is printed;
\*   "transport"  the request fails and S.post, raise_for_status or res.json()
\*                raises.
HandshakeOutcomes(b) ==
    {"ok"} \cup (IF b > 0 THEN {"hue_error", "malformed", "transport"} ELSE {})

\* if args.setup is not None: setup(args.setup, args.output)
Main_Setup ==
    /\ pc = "setup"
    /\ pc' = IF args.setup THEN "handshake_input" ELSE "config"
    /\ UNCHANGED << args, text, repeat, passed, speed, msg, lamp, initial_state,
                    desired_state, current, currently_on, rep, wi, ci, j, exc, status,
                    stderr, trace, budget, foreign, saved >>

\* handshake, line 377: input("Press the button ..."), which waits for a line
\* of standard input and raises EOFError when there is none; the exception is
\* caught nowhere and no request has been made.
handshake_input ==
    /\ pc = "handshake_input"
    /\ IF args.stdin
       THEN /\ pc' = "handshake_post"
            /\ UNCHANGED status
       ELSE /\ pc' = "done"
            /\ status' = "raised"
    /\ UNCHANGED << args, text, repeat, passed, speed, msg, lamp, initial_state,
                    desired_state, current, currently_on, rep, wi, ci, j, exc,
                    stderr, trace, budget, foreign, saved >>

\* handshake from line 379: the POST and what is made of its answer.  With a
\* username setup goes on to save the config; with None (an error array, which
\* contains_hue_error prints, or an answer without a username) setup returns
\* False and the program exits with 0; an exception is caught nowhere.
handshake ==
    /\ pc = "handshake_post"
    /\ \E outcome \in HandshakeOutcomes(budget) :
          /\ trace' = Append(trace, Ev("cli", "handshake", None, outcome))
          /\ stderr' = IF contains_hue_error(outcome)
                       THEN Append(stderr, HueErrorLine("handshake"))
                       ELSE stderr
          /\ status' = IF outcome = "transport" THEN "raised"
                       ELSE IF outcome = "ok" THEN status ELSE "exit0"
          /\ budget' = IF outcome = "ok" THEN budget ELSE budget - 1
          /\ pc' = IF outcome = "ok" THEN "save" ELSE "done"
    /\ UNCHANGED << args, text, repeat, passed, speed, msg, lamp, initial_state,
                    desired_state, current, currently_on, rep, wi, ci, j, exc,
                    foreign, saved >>

\* setup, lines 400-401: c = Config(...); c.save(config_path), then sys.exit(0)
\* at line 541.  open(path, "w") raises when the path is None or cannot be
\* written; the exception is caught nowhere and no file is left.
Config_save ==
    /\ pc = "save"
    /\ saved' = args.writable
    /\ status' = IF args.writable THEN "exit0" ELSE "raised"
    /\ pc' = "done"
    /\ UNCHANGED << args, text, repeat, passed, speed, msg, lamp, initial_state,
                    desired_state, current, currently_on, rep, wi, ci, j, exc,
                    stderr, trace, budget, foreign >>

\* c = Config.from_json_path(...); if c is None: sys.exit(1)
\* from_json_path prints and returns None when the file is missing, and raises
\* when the path is None or the file does not hold a Config; the exception is
\* caught nowhere.
Main_Config ==
    /\ pc = "config"
    /\ IF args.config = "loaded"
       THEN /\ pc' = "list"
            /\ UNCHANGED << status, stderr >>
       ELSE /\ stderr' = IF args.config = "missing"
                         THEN Append(stderr, <<"ERROR: Did not find config file">>)
                         ELSE stderr
            /\ pc' = "done"
            /\ status' = IF args.config = "missing" THEN "exit1" ELSE "raised"
    /\ UNCHANGED << args, text, repeat, passed, speed, msg, lamp, initial_state,
                    desired_state, current, currently_on, rep, wi, ci, j, exc, trace,
                    budget, foreign, saved >>

\* How the GET of list_lamps can end:
\*   "ok"         the bridge answers with the object of its lamps, each with
\*                a name, and list_lamps prints them;
\*   "hue_error"  the bridge answers with an error array: list_lamps does not
\*                look for one, and res.json().items() raises (a list has no
\*                items);
\*   "malformed"  a lamp of the answer has no name and lamp['name'] raises;
\*   "transport"  the request fails and S.get, raise_for_status or res.json()
\*                raises.
ListOutcomes(b) ==
    {"ok"} \cup (IF b > 0 THEN {"hue_error", "malformed", "transport"} ELSE {})

\* if args.list: c.list_lamps(); sys.exit(0)
\* An exception of list_lamps is caught nowhere and nothing is printed on
\* stderr by the program itself.
Main_List ==
    /\ pc = "list"
    /\ IF args.list
       THEN \E outcome \in ListOutcomes(budget) :
              /\ trace' = Append(trace, Ev("cli", "list_lamps", None, outcome))
              /\ status' = IF outcome = "ok" THEN "exit0" ELSE "raised"
              /\ budget' = IF outcome = "ok" THEN budget ELSE budget - 1
              /\ pc' = "done"
       ELSE /\ pc' = "wpm"
            /\ UNCHANGED << trace, status, budget >>
    /\ UNCHANGED << args, text, repeat, passed, speed, msg, lamp, initial_state,
                    desired_state, current, currently_on, rep, wi, ci, j, exc, stderr,
                    foreign, saved >>

\* A check that lets --wpm 0 through.
WpmRejected_Negative(w) == w < 0

\* line 551: if args.wpm <= 0
WpmRejected(w) == w <= 0

\* if args.wpm <= 0: eprint(...); sys.exit(1)
\* speed = Speed(args.wpm); if args.text is not None and args.id is not None:
\* With args.wpm None the comparison raises and the exception is caught
\* nowhere.  Without --text or --id the program falls off its end.
Main_Wpm ==
    /\ pc = "wpm"
    /\ IF args.wpm = NoValue
       THEN /\ pc' = "done"
            /\ status' = "raised"
            /\ UNCHANGED << speed, stderr >>
       ELSE IF WpmRejected(args.wpm)
            THEN /\ stderr' = Append(stderr, <<"WPM must be positive">>)
                 /\ pc' = "done"
                 /\ status' = "exit1"
                 /\ UNCHANGED speed
            ELSE /\ speed' = Speed(args.wpm)
                 /\ pc' = IF args.playable THEN "translate" ELSE "done"
                 /\ status' = IF args.playable THEN status ELSE "exit0"
                 /\ UNCHANGED stderr
    /\ UNCHANGED << args, text, repeat, passed, msg, lamp, initial_state,
                    desired_state, current, currently_on, rep, wi, ci, j, exc, trace,
                    budget, foreign, saved >>

\* text = translate(args.text)
Main_Translate ==
    /\ pc = "translate"
    /\ \E t \in Texts(IF budget = 0 THEN MaxLen ELSE MaxFaultLen) :
          /\ text' = t
          /\ msg' = translate(t)
    /\ pc' = "enter"
    /\ UNCHANGED << args, repeat, passed, speed, lamp, initial_state,
                    desired_state, current, currently_on, rep, wi, ci, j, exc, status, stderr,
                    trace, budget, foreign, saved >>

\* ------------------------------------------------------------- the Lamp

\* A PUT to <lamp>/state, as Lamp.set_state and Lamp.set_on make it: the
\* bridge handles the body, raise_for_status and contains_hue_error look at
\* the answer.
Put(ph, op, body, outcome) ==
    /\ trace' = Append(trace, Ev(ph, op, body, outcome))
    /\ lamp' = Bridge(lamp, body, outcome)
    /\ budget' = IF outcome = "ok" THEN budget ELSE budget - 1
    /\ stderr' = IF contains_hue_error(outcome)
                 THEN Append(stderr, HueErrorLine("set_lamp"))
                 ELSE stderr

\* Lamp.current_state(): the GET of the lamp; what LampState is built from is
\* the lamp behind the bridge.
Lamp_current_state(ph, outcome) ==
    /\ trace' = Append(trace, Ev(ph, "get", None, outcome))
    /\ budget' = IF outcome = "ok" THEN budget ELSE budget - 1
    /\ stderr' = IF contains_hue_error(outcome)
                 THEN Append(stderr, HueErrorLine("get_initial_lamp_state"))
                 ELSE stderr

\* Lamp.set_state(state)
set_state(ph, state, outcome) == Put(ph, "set_state", SetStateBody(state), outcome)

\* Lamp.set_on(on)
set_on(ph, on, outcome) == Put(ph, "set_on", SetOnBody(on), outcome)

\* time.sleep(duration)
sleep(ph, duration) == trace' = Append(trace, Ev(ph, "sleep", duration, "ok"))

\* An __enter__ that takes whatever state it can get when the read fails, and
\* lets the body run.
Enter_KeepGoing ==
    /\ pc = "enter"
    /\ \E o \in ReadOutcomes(budget) :
          /\ Lamp_current_state("acquire", o)
          /\ initial_state' = Some(LampStateOf(lamp))
          /\ pc' = "desired"
          /\ UNCHANGED status
    /\ UNCHANGED << args, text, repeat, passed, speed, msg, lamp, desired_state,
                    current, currently_on, rep, wi, ci, j, exc, foreign, saved >>

\* Lamp.__enter__: self._initial_state = self.current_state().  When the read
\* raises, the with statement never runs its body nor __exit__.
Enter ==
    /\ pc = "enter"
    /\ \E o \in ReadOutcomes(budget) :
          /\ Lamp_current_state("acquire", o)
          /\ IF o = "ok"
             THEN /\ initial_state' = Some(LampStateOf(lamp))
                  /\ pc' = "desired"
                  /\ UNCHANGED status
             ELSE /\ pc' = "done"
                  /\ status' = "raised"
                  /\ UNCHANGED initial_state
    /\ UNCHANGED << args, text, repeat, passed, speed, msg, lamp, desired_state,
                    current, currently_on, rep, wi, ci, j, exc, foreign, saved >>

\* initial_state = lamp.initial_state(); desired_state = replace(initial_state, ...)
Main_Desired ==
    /\ pc = "desired"
    /\ \E p \in OverridesFor(text, budget) :
          /\ passed' = p
          /\ desired_state' = Some(replace(initial_state[1], p))
    /\ pc' = "prepare"
    /\ UNCHANGED << args, text, repeat, speed, msg, lamp, initial_state, current, currently_on,
                    rep, wi, ci, j, exc, status, stderr, trace, budget, foreign, saved >>

\* A with statement that lets an exception of its body escape without
\* calling __exit__.
AfterWrite_NoExit(outcome, next) == IF outcome = "transport" THEN "done" ELSE next

\* A write that ends the with body, without an exception, when the bridge
\* answers with an error.
AfterWrite_AbortOnError(outcome, next) ==
    IF outcome \in {"transport", "hue_error"} THEN "exit_read" ELSE next

\* A with body that goes on after a write has raised.
AfterWrite_Continue(outcome, next) == next

\* Where the program goes after a write made in the with body: on when the
\* write returned, into __exit__ when it raised.
AfterWrite(outcome, next) == IF outcome = "transport" THEN "exit_read" ELSE next

\* A program that writes the whole desired state before every playback.
OverrideDiffers_Always(desired, initial) == TRUE

\* if desired_state != initial_state: the != of two LampStates, field by
\* field, an xy list element by element, two elements being equal when they
\* are the same object or compare equal.  A nan of --xy (NaN) is never the
\* object the lamp reported (JsonNaN), so such a desired state differs; a nan
\* that replace() carried over from the initial state is the same object and
\* does not make a difference.
OverrideDiffers(desired, initial) == desired # initial

\* A program whose desired_state is the Lamp's _initial_state itself, not a
\* copy: forcing on to False changes both.
Main_Prepare_Aliased ==
    /\ pc = "prepare"
    /\ IF OverrideDiffers(desired_state[1], initial_state[1])
       THEN \E o \in WriteOutcomes(budget,
                                   SetStateBody([desired_state[1] EXCEPT !.on = FALSE])) :
               /\ desired_state' = Some([desired_state[1] EXCEPT !.on = FALSE])
               /\ initial_state' = Some([initial_state[1] EXCEPT !.on = FALSE])
               /\ set_state("prepare", [desired_state[1] EXCEPT !.on = FALSE], o)
               /\ pc' = AfterWrite(o, "prepare_sleep2")
               /\ exc' = (o = "transport")
       ELSE \E o \in WriteOutcomes(budget, SetOnBody(FALSE)) :
               /\ UNCHANGED << desired_state, initial_state >>
               /\ set_on("prepare", FALSE, o)
               /\ pc' = AfterWrite(o, "prepare_sleep1")
               /\ exc' = (o = "transport")
    /\ UNCHANGED << args, text, repeat, passed, speed, msg, current, currently_on,
                    rep, wi, ci, j, status, foreign, saved >>

\* The write before playback: set_state(desired_state) with on forced to False
\* when an override differs from the initial state, set_on(False) otherwise.
Main_Prepare ==
    /\ pc = "prepare"
    /\ IF OverrideDiffers(desired_state[1], initial_state[1])
       THEN \E o \in WriteOutcomes(budget,
                                   SetStateBody([desired_state[1] EXCEPT !.on = FALSE])) :
               /\ desired_state' = Some([desired_state[1] EXCEPT !.on = FALSE])
               /\ set_state("prepare", [desired_state[1] EXCEPT !.on = FALSE], o)
               /\ pc' = AfterWrite(o, "prepare_sleep2")
               /\ exc' = (o = "transport")
       ELSE \E o \in WriteOutcomes(budget, SetOnBody(FALSE)) :
               /\ UNCHANGED desired_state
               /\ set_on("prepare", FALSE, o)
               /\ pc' = AfterWrite(o, "prepare_sleep1")
               /\ exc' = (o = "transport")
    /\ UNCHANGED << args, text, repeat, passed, speed, msg, initial_state, current, currently_on,
                    rep, wi, ci, j, status, foreign, saved >>

\* sleep(STATE_CHANGE_SECONDS * 2) or sleep(STATE_CHANGE_SECONDS)
Main_PrepareSleep ==
    /\ pc \in {"prepare_sleep1", "prepare_sleep2"}
    /\ sleep("prepare",
             IF pc = "prepare_sleep2"
             THEN Frac(STATE_CHANGE_SECONDS * 2, 1)
             ELSE Frac(STATE_CHANGE_SECONDS, 1))
    /\ pc' = "range"
    /\ UNCHANGED << args, text, repeat, passed, speed, msg, lamp, initial_state,
                    desired_state, current, currently_on, rep, wi, ci, j, exc, status, stderr,
                    budget, foreign, saved >>

\* range(args.repeat); with args.repeat None it raises inside the with body,
\* and __exit__ runs with the exception in flight.
Main_Range ==
    /\ pc = "range"
    /\ \E n \in Repeats :
          /\ repeat' = n
          /\ exc' = (n = NoValue)
          /\ pc' = IF n = NoValue THEN "exit_read" ELSE "for_repeat"
    /\ rep' = 0
    /\ UNCHANGED << args, text, passed, speed, msg, lamp, initial_state,
                    desired_state, current, currently_on, wi, ci, j, status, stderr, trace,
                    budget, foreign, saved >>

\* for _ in range(args.repeat): the next round, or the end of the with body.
ForRepeat ==
    /\ pc = "for_repeat"
    /\ IF rep < repeat
       THEN /\ pc' = "for_word"
            /\ wi' = 0
       ELSE /\ pc' = "exit_read"
            /\ UNCHANGED wi
    /\ UNCHANGED << args, text, repeat, passed, speed, msg, lamp, initial_state,
                    desired_state, current, currently_on, rep, ci, j, exc, status, stderr, trace,
                    budget, foreign, saved >>

\* blink_morse_message: for i, word in enumerate(morse_msg)
ForWord ==
    /\ pc = "for_word"
    /\ IF wi < Len(msg)
       THEN /\ pc' = "for_char"
            /\ ci' = 0
       ELSE /\ pc' = "repeat_pause"
            /\ UNCHANGED ci
    /\ UNCHANGED << args, text, repeat, passed, speed, msg, lamp, initial_state,
                    desired_state, current, currently_on, rep, wi, j, exc, status, stderr, trace,
                    budget, foreign, saved >>

\* blink_morse_word: for i, char in enumerate(morse_word)
ForChar ==
    /\ pc = "for_char"
    /\ IF ci < Len(msg[wi + 1])
       THEN /\ pc' = "for_sym"
            /\ j' = 0
       ELSE /\ pc' = "word_gap"
            /\ UNCHANGED j
    /\ UNCHANGED << args, text, repeat, passed, speed, msg, lamp, initial_state,
                    desired_state, current, currently_on, rep, wi, ci, exc, status, stderr, trace,
                    budget, foreign, saved >>

\* blink_morse_word: for j, b in enumerate(char)
ForSym ==
    /\ pc = "for_sym"
    /\ pc' = IF j < Len(msg[wi + 1][ci + 1]) THEN "blink_on" ELSE "letter_gap"
    /\ UNCHANGED << args, text, repeat, passed, speed, msg, lamp, initial_state,
                    desired_state, current, currently_on, rep, wi, ci, j, exc, status, stderr,
                    trace, budget, foreign, saved >>

\* Lamp.blink: self.set_on(on=True)
BlinkOn ==
    /\ pc = "blink_on"
    /\ \E o \in WriteOutcomes(budget, SetOnBody(TRUE)) :
          /\ set_on("play", TRUE, o)
          /\ pc' = AfterWrite(o, "blink_sleep")
          /\ exc' = (o = "transport")
    /\ UNCHANGED << args, text, repeat, passed, speed, msg, initial_state,
                    desired_state, current, currently_on, rep, wi, ci, j, status, foreign, saved >>

\* A blink_morse_word that blinks a dash no longer than a dot.
BlinkDuration_AllDots(b, sp) == sp.dot

\* The duration blink_morse_word passes to blink for the symbol b.
BlinkDuration(b, sp) == IF b = "." THEN sp.dot ELSE sp.dash

\* Lamp.blink: sleep(duration_s)
BlinkSleep ==
    /\ pc = "blink_sleep"
    /\ sleep("play", BlinkDuration(msg[wi + 1][ci + 1][j + 1], speed))
    /\ pc' = "blink_off"
    /\ UNCHANGED << args, text, repeat, passed, speed, msg, lamp, initial_state,
                    desired_state, current, currently_on, rep, wi, ci, j, exc, status, stderr,
                    budget, foreign, saved >>

\* A blink that does not switch the lamp off after its wait.
BlinkOff_LeavesOn ==
    /\ pc = "blink_off"
    /\ \E o \in WriteOutcomes(budget, SetOnBody(TRUE)) :
          /\ set_on("play", TRUE, o)
          /\ pc' = AfterWrite(o, "intra_gap")
          /\ exc' = (o = "transport")
    /\ UNCHANGED << args, text, repeat, passed, speed, msg, initial_state,
                    desired_state, current, currently_on, rep, wi, ci, j, status, foreign, saved >>

\* Lamp.blink: self.set_on(on=False)
BlinkOff ==
    /\ pc = "blink_off"
    /\ \E o \in WriteOutcomes(budget, SetOnBody(FALSE)) :
          /\ set_on("play", FALSE, o)
          /\ pc' = AfterWrite(o, "intra_gap")
          /\ exc' = (o = "transport")
    /\ UNCHANGED << args, text, repeat, passed, speed, msg, initial_state,
                    desired_state, current, currently_on, rep, wi, ci, j, status, foreign, saved >>

\* blink_morse_word, line 339: if j < len(morse_word) - 1
IntraGapDue(jj, morse_word, char) == jj < Len(morse_word) - 1

\* blink_morse_word: the pause after a symbol, and the next symbol.
IntraGap ==
    /\ pc = "intra_gap"
    /\ IF IntraGapDue(j, msg[wi + 1], msg[wi + 1][ci + 1])
       THEN sleep("play", speed.dot)
       ELSE UNCHANGED trace
    /\ j' = j + 1
    /\ pc' = "for_sym"
    /\ UNCHANGED << args, text, repeat, passed, speed, msg, lamp, initial_state,
                    desired_state, current, currently_on, rep, wi, ci, exc, status, stderr,
                    budget, foreign, saved >>

\* A letter gap after every character, the last one too.
LetterGapDue_Always(i, morse_word) == i < Len(morse_word)

\* blink_morse_word, line 343: if i < len(morse_word) - 1
LetterGapDue(i, morse_word) == i < Len(morse_word) - 1

\* blink_morse_word: the pause after a character, and the next character.
LetterGap ==
    /\ pc = "letter_gap"
    /\ IF LetterGapDue(ci, msg[wi + 1])
       THEN sleep("play", speed.letter_space)
       ELSE UNCHANGED trace
    /\ ci' = ci + 1
    /\ pc' = "for_char"
    /\ UNCHANGED << args, text, repeat, passed, speed, msg, lamp, initial_state,
                    desired_state, current, currently_on, rep, wi, j, exc, status, stderr,
                    budget, foreign, saved >>

\* A word gap after every word, the last one too.
WordGapDue_Always(i, morse_msg) == i < Len(morse_msg)

\* blink_morse_message, line 355: if i < len(morse_msg) - 1
WordGapDue(i, morse_msg) == i < Len(morse_msg) - 1

\* blink_morse_message: the pause after a word, and the next word.
WordGap ==
    /\ pc = "word_gap"
    /\ IF WordGapDue(wi, msg)
       THEN sleep("play", speed.space)
       ELSE UNCHANGED trace
    /\ wi' = wi + 1
    /\ pc' = "for_word"
    /\ UNCHANGED << args, text, repeat, passed, speed, msg, lamp, initial_state,
                    desired_state, current, currently_on, rep, ci, j, exc, status, stderr,
                    budget, foreign, saved >>

\* A repeat loop that pauses between rounds only, not after the last one.
RepeatPause_Between ==
    /\ pc = "repeat_pause"
    /\ IF rep < repeat - 1
       THEN sleep("play", speed.repeat_pause)
       ELSE UNCHANGED trace
    /\ rep' = rep + 1
    /\ pc' = "for_repeat"
    /\ UNCHANGED << args, text, repeat, passed, speed, msg, lamp, initial_state,
                    desired_state, current, currently_on, wi, ci, j, exc, status,
                    stderr, budget, foreign, saved >>

\* sleep(speed.repeat_pause()) after every round, the last included.
RepeatPause ==
    /\ pc = "repeat_pause"
    /\ sleep("play", speed.repeat_pause)
    /\ rep' = rep + 1
    /\ pc' = "for_repeat"
    /\ UNCHANGED << args, text, repeat, passed, speed, msg, lamp, initial_state,
                    desired_state, current, currently_on, wi, ci, j, exc, status, stderr,
                    budget, foreign, saved >>

\* Lamp.__exit__, lines 269-277: current_state = self.current_state();
\* currently_on = current_state.on; current_state.on = self._initial_state.on.
\* It runs when the with body ends and when the body raises; an exception of
\* its own replaces the body's.
ExitRead ==
    /\ pc = "exit_read"
    /\ initial_state # None
    /\ \E o \in ReadOutcomes(budget) :
          /\ Lamp_current_state("release", o)
          /\ IF o = "ok"
             THEN /\ currently_on' = Some(LampStateOf(lamp).on)
                  /\ current' = Some([LampStateOf(lamp) EXCEPT !.on = initial_state[1].on])
                  /\ pc' = "exit_write"
                  /\ UNCHANGED status
             ELSE /\ pc' = "done"
                  /\ status' = "raised"
                  /\ UNCHANGED << current, currently_on >>
    /\ UNCHANGED << args, text, repeat, passed, speed, msg, lamp, initial_state,
                    desired_state, rep, wi, ci, j, exc, foreign, saved >>

\* An __exit__ that only ever resets the power.
ExitWriteOf_PowerOnly(current_state, on_now, initial) ==
    IF on_now # initial.on
    THEN Some([op |-> "set_on", body |-> SetOnBody(initial.on)])
    ELSE None

\* An __exit__ that resets the power first and the other fields only when the
\* power is already right.
ExitWriteOf_PowerFirst(current_state, on_now, initial) ==
    IF on_now # initial.on
    THEN Some([op |-> "set_on", body |-> SetOnBody(initial.on)])
    ELSE IF current_state # initial
         THEN Some([op |-> "set_state", body |-> SetStateBody(initial)])
         ELSE None

\* An __exit__ that always writes the whole initial state back.
ExitWriteOf_AlwaysState(current_state, on_now, initial) ==
    Some([op |-> "set_state", body |-> SetStateBody(initial)])

\* Lamp.__exit__, lines 279-286: the write that resets the lamp, or None.
ExitWriteOf(current_state, on_now, initial) ==
    IF current_state # initial
    THEN Some([op |-> "set_state", body |-> SetStateBody(initial)])
    ELSE IF ~on_now /\ initial.on
         THEN Some([op |-> "set_on", body |-> SetOnBody(TRUE)])
         ELSE IF on_now /\ ~initial.on
              THEN Some([op |-> "set_on", body |-> SetOnBody(FALSE)])
              ELSE None

\* Lamp.__exit__: the reset, then the end of the program (an exception raised
\* by the body or by the write goes on to the caller).
ExitWrite ==
    /\ pc = "exit_write"
    /\ LET w == ExitWriteOf(current[1], currently_on[1], initial_state[1])
       IN  IF w = None
           THEN /\ status' = IF exc THEN "raised" ELSE "exit0"
                /\ UNCHANGED << trace, lamp, budget, stderr >>
           ELSE \E o \in WriteOutcomes(budget, w[1].body) :
                   /\ Put("release", w[1].op, w[1].body, o)
                   /\ status' = IF exc \/ o = "transport" THEN "raised" ELSE "exit0"
    /\ pc' = "done"
    /\ UNCHANGED << args, text, repeat, passed, speed, msg, initial_state,
                    desired_state, current, currently_on, rep, wi, ci, j, exc,
                    foreign, saved >>

\* The program positions inside the with statement at which the next step is
\* a read or a write of the lamp.
RemoteCallPcs == { "prepare", "blink_on", "blink_off", "exit_read", "exit_write" }

\* Somebody else changes the lamp while the session is open.  The program
\* sees the lamp only through its reads and writes, so a change made at any
\* moment of the session is a change made before the next of them.
ForeignChange ==
    /\ pc \in RemoteCallPcs
    /\ budget > 0
    /\ \E b \in ForeignBodies :
          /\ lamp' = Bridge(lamp, b, "ok")
          /\ lamp' # lamp
    /\ budget' = budget - 1
    /\ foreign' = foreign + 1
    /\ UNCHANGED << pc, args, text, repeat, passed, speed, msg, initial_state,
                    desired_state, current, currently_on, rep, wi, ci, j, exc, status, stderr,
                    trace, saved >>

Next ==
    \/ Main_Setup \/ handshake_input \/ handshake \/ Config_save
    \/ Main_Config \/ Main_List \/ Main_Wpm \/ Main_Translate
    \/ Enter \/ Main_Desired \/ Main_Prepare \/ Main_PrepareSleep \/ Main_Range
    \/ ForRepeat \/ ForWord \/ ForChar \/ ForSym
    \/ BlinkOn \/ BlinkSleep \/ BlinkOff
    \/ IntraGap \/ LetterGap \/ WordGap \/ RepeatPause
    \/ ExitRead \/ ExitWrite
    \/ ForeignChange

Spec == Init /\ [][Next]_vars

\* ------------------------------------------------- translate on its own

\* The characters of the texts translate is tried on: a letter in both cases,
\* the characters of the doctest 'H i?', a character the table lacks, a blank,
\* a tab, a separator outside ASCII (U+0085), the sharp s, whose upper case
\* form is two letters, and the Kelvin sign, an upper case character the table
\* lacks whose lower case form is k.
TranslateAlphabet ==
    {"a", "A", "H", "i", "?", "#", " ", "\t", "x85", "szlig", "Kelvin"}

TranslateTexts == UNION {[1..k -> TranslateAlphabet] : k \in 0..MaxTranslateLen}

\* The program before translate is called, nothing else going on.
TranslateInit ==
    /\ pc = "translate"
    /\ args = [setup |-> FALSE, stdin |-> TRUE, writable |-> TRUE, list |-> FALSE,
               config |-> "loaded", playable |-> TRUE,
               wpm |-> 20]
    /\ text = <<>>
    /\ repeat = 0
    /\ passed = NoOverride
    /\ speed = Speed(20)
    /\ msg = <<>>
    /\ lamp = [on |-> TRUE, bri |-> 100, ct |-> 300, hue |-> None, sat |-> None,
               xy |-> None]
    /\ initial_state = None
    /\ desired_state = None
    /\ current = None
    /\ currently_on = None
    /\ rep = 0 /\ wi = 0 /\ ci = 0 /\ j = 0
    /\ exc = FALSE
    /\ status = "running"
    /\ stderr = <<>>
    /\ trace = <<>>
    /\ budget = 0
    /\ foreign = 0
    /\ saved = FALSE

\* text = translate(args.text), for any text.
Translate_Apply ==
    /\ pc = "translate"
    /\ \E t \in TranslateTexts :
          /\ text' = t
          /\ msg' = translate(t)
    /\ pc' = "translated"
    /\ UNCHANGED << args, repeat, passed, speed, lamp, initial_state,
                    desired_state, current, currently_on, rep, wi, ci, j, exc, status, stderr,
                    trace, budget, foreign, saved >>

TranslateNext == Translate_Apply

TranslateSpec == TranslateInit /\ [][TranslateNext]_vars

\* ------------------------------------------------- LampState on its own

\* The arguments LampState is tried on: values below, inside, on the edge of
\* and above every range, absent optional fields, xy lists of no, one, two and
\* three coordinates, and a coordinate that is nan (either nan object).
LampStateInputs ==
    [ on : BOOLEAN,
      bri : {-1, 0, 100, 254, 255, 999},
      ct : {0, 153, 154, 300, 500, 501},
      hue : {None, Some(-5), Some(5), Some(65535), Some(65536)},
      sat : {None, Some(-1), Some(6), Some(300)},
      xy : {None, Some(<<>>), Some(<<3>>), Some(<<3, 4>>), Some(<<20, -10, 7>>),
            Some(<<NaN, 5>>), Some(<<JsonNaN, 5>>)} ]

\* The program before a LampState is constructed, nothing else going on.
LampStateInit ==
    /\ pc = "construct"
    /\ args = [setup |-> FALSE, stdin |-> TRUE, writable |-> TRUE, list |-> FALSE,
               config |-> "loaded", playable |-> TRUE,
               wpm |-> 20]
    /\ text = <<>>
    /\ repeat = 0
    /\ passed = NoOverride
    /\ speed = Speed(20)
    /\ msg = <<>>
    /\ lamp = [on |-> TRUE, bri |-> 100, ct |-> 300, hue |-> None, sat |-> None,
               xy |-> None]
    /\ initial_state = None
    /\ desired_state = None
    /\ current = None
    /\ currently_on = None
    /\ rep = 0 /\ wi = 0 /\ ci = 0 /\ j = 0
    /\ exc = FALSE
    /\ status = "running"
    /\ stderr = <<>>
    /\ trace = <<>>
    /\ budget = 0
    /\ foreign = 0
    /\ saved = FALSE

\* LampState(**state): lamp holds the arguments, initial_state the LampState
\* built from them.
LampState_Construct ==
    /\ pc = "construct"
    /\ \E s \in LampStateInputs :
          /\ lamp' = s
          /\ initial_state' = Some(LampStateOf(s))
    /\ pc' = "constructed"
    /\ UNCHANGED << args, text, repeat, passed, speed, msg, desired_state, current,
                    currently_on, rep, wi, ci, j, exc, status, stderr, trace, budget,
                    foreign, saved >>

\* replace(state) with no change: a LampState built from the fields of one
\* that was already built.
LampState_Reconstruct ==
    /\ pc = "constructed"
    /\ current' = Some(replace(initial_state[1], NoOverride))
    /\ pc' = "reconstructed"
    /\ UNCHANGED << args, text, repeat, passed, speed, msg, lamp, initial_state,
                    desired_state, currently_on, rep, wi, ci, j, exc, status, stderr,
                    trace, budget, foreign, saved >>

LampStateNext == LampState_Construct \/ LampState_Reconstruct

LampStateSpec == LampStateInit /\ [][LampStateNext]_vars

\* ------------------------------------------------------ reading the trace

\* Every remote call made so far succeeded.
AllOk == \A k \in 1..Len(trace) : trace[k].resp = "ok"

\* Every remote call succeeded and nobody else changed the lamp.
Undisturbed == AllOk /\ foreign = 0

\* __exit__ has run to its end: the re-read succeeded and the reset was decided.
Released == pc = "done" /\ currently_on # None

\* How many times __enter__ returned, and how many times __exit__ started its
\* reset (the reset begins with the re-read).
Acquires == Cardinality({k \in 1..Len(trace) : trace[k].ph = "acquire" /\ trace[k].resp = "ok"})

Releases == Cardinality({k \in 1..Len(trace) : trace[k].ph = "release" /\ trace[k].op = "get"})

IsReleaseWrite(e) == e.ph = "release" /\ e.op # "get"

\* The writes __exit__ issued.
ReleaseWrites == SelectSeq(trace, IsReleaseWrite)

\* ------------------------------------------------------------- the claims

\* C1: in a session whose acquire read and every other remote call succeeded
\* and during which nobody else changed the lamp, the lamp is back in the
\* state captured at acquire (on, bri, ct, hue, sat, xy) once the session has
\* been released, whatever the text, the repeat count, the wpm and the
\* overrides were.
C1_Restored ==
    (Released /\ Undisturbed) => lamp = initial_state[1]

\* A released, undisturbed session that wrote an overridden state, blinked,
\* and left a lamp that had been on.
C1_Witness ==
    /\ Released /\ Undisturbed
    /\ initial_state[1].on
    /\ \E k \in 1..Len(trace) : trace[k].ph = "prepare" /\ trace[k].op = "set_state"
    /\ \E k \in 1..Len(trace) : trace[k].ph = "play" /\ trace[k].op = "set_on"
    /\ lamp = initial_state[1]

\* C2: the release protocol runs exactly once for every successful acquire,
\* whether the with body ends normally or a write inside it raises: it never
\* runs without an acquire nor twice, the program never stops before its end,
\* and at the end of the program every acquire has had its release.
C2_ReleaseOnce ==
    /\ Acquires <= 1
    /\ Releases <= Acquires
    /\ pc = "done" \/ ENABLED Next
    /\ pc = "done" => Releases = Acquires

\* A session whose body was aborted by a write that raised during playback,
\* and that was released once.
C2_Witness ==
    /\ pc = "done" /\ exc
    /\ \E k \in 1..Len(trace) :
          trace[k].ph = "play" /\ trace[k].op = "set_on" /\ trace[k].resp = "transport"
    /\ Acquires = 1 /\ Releases = 1

\* C3: when the state re-read at release, with its on field replaced by the
\* baseline's, differs from the baseline, release issues exactly one write,
\* set_state(baseline), whose body carries the baseline's on; it issues no
\* set_on.
C3_DriftOneSetState ==
    (Released /\ current[1] # initial_state[1]) =>
        /\ Len(ReleaseWrites) = 1
        /\ ReleaseWrites[1].op = "set_state"
        /\ ReleaseWrites[1].arg = SetStateBody(initial_state[1])
        /\ ReleaseWrites[1].arg.on = initial_state[1].on

\* A release that found another brightness or colour and the power changed too.
C3_Witness ==
    /\ Released
    /\ current[1] # initial_state[1]
    /\ currently_on[1] # initial_state[1].on
    /\ Len(ReleaseWrites) = 1

\* C4: when every field but on of the state re-read at release equals the
\* baseline's, release issues no set_state; it issues exactly one write,
\* set_on(baseline.on), when the re-read power differs from the baseline's,
\* and no write at all when the power matches too.
C4_NoDriftPowerOnly ==
    (Released /\ current[1] = initial_state[1]) =>
        /\ \A k \in 1..Len(ReleaseWrites) : ReleaseWrites[k].op # "set_state"
        /\ IF currently_on[1] # initial_state[1].on
           THEN /\ Len(ReleaseWrites) = 1
                /\ ReleaseWrites[1].op = "set_on"
                /\ ReleaseWrites[1].arg = SetOnBody(initial_state[1].on)
           ELSE ReleaseWrites = <<>>

\* A release that found only the power changed, after a playback that blinked.
C4_Witness ==
    /\ Released
    /\ current[1] = initial_state[1]
    /\ currently_on[1] # initial_state[1].on
    /\ \E k \in 1..Len(trace) : trace[k].ph = "play" /\ trace[k].op = "set_on"
    /\ Len(ReleaseWrites) = 1

\* ---------------------------------------------------- reading a playback

RECURSIVE Flatten(_)
\* The concatenation of a sequence of sequences.
Flatten(ss) == IF ss = <<>> THEN <<>> ELSE Head(ss) \o Flatten(Tail(ss))

\* The symbols of a message in playing order, each with its word, its
\* character in the word and its place in the character.
SymbolsOf(m) ==
    Flatten([w \in 1..Len(m) |->
        Flatten([c \in 1..Len(m[w]) |->
            [s \in 1..Len(m[w][c]) |-> [w |-> w, c |-> c, s |-> s, b |-> m[w][c][s]]]])])

RECURSIVE SumTo(_, _)
\* f[1] + ... + f[n]
SumTo(f, n) == IF n = 0 THEN 0 ELSE f[n] + SumTo(f, n - 1)

\* The letter gaps one traversal of m calls for: one after every character
\* of a word but its last.
LetterGapsOf(m) == SumTo([w \in 1..Len(m) |-> Max2(Len(m[w]) - 1, 0)], Len(m))

\* The word gaps one traversal of m calls for: one after every word but the last.
WordGapsOf(m) == Max2(Len(m) - 1, 0)

IsPlay(e) == e.ph = "play"

\* What playback has done so far: the set_on calls and the sleeps.
Played == SelectSeq(trace, IsPlay)

\* P[k] is the wait of a blink: a sleep right after set_on(True).
IsBlinkWait(P, k) ==
    /\ P[k].op = "sleep"
    /\ k > 1
    /\ P[k - 1].op = "set_on"
    /\ P[k - 1].arg.on

\* P[k] is a pause: a sleep that is not the wait of a blink.
IsPause(P, k) == P[k].op = "sleep" /\ ~IsBlinkWait(P, k)

\* P[k] is a pause of duration d.
PauseOf(P, k, d) == IsPause(P, k) /\ SameDur(P[k].arg, d)

\* The indices of P, in order, that satisfy Test.
IndicesOf(P, Test(_, _)) ==
    LET Keep(k) == Test(P, k) IN SelectSeq([k \in 1..Len(P) |-> k], Keep)

\* The places of the blinks' waits, and of the repeat pauses, in P.
BlinkWaits(P) == IndicesOf(P, IsBlinkWait)

IsRepeatPause(P, k) == PauseOf(P, k, speed.repeat_pause)

RepeatPauses(P) == IndicesOf(P, IsRepeatPause)

\* How many pauses of duration d lie in P[from..to].
PausesIn(P, from, to, d) == Cardinality({k \in from..to : PauseOf(P, k, d)})

\* How many blinks lie in P[from..to].
BlinksIn(P, from, to) == Cardinality({k \in from..to : IsBlinkWait(P, k)})

\* The with body has just run to its end: playback is complete and __exit__
\* is about to start.
PlayedOut == pc = "exit_read" /\ ~exc

\* The symbol that the g-th blink of a complete playback shows.
SymbolOfBlink(syms, g) == syms[((g - 1) % Len(syms)) + 1]

\* The part of P after the g-th blink up to the next blink (or the end), B
\* being the places of the blinks' waits.
GapFrom(B, g) == B[g] + 2

GapTo(P, B, g) == IF g < Len(B) THEN B[g + 1] - 2 ELSE Len(P)

\* The first and last index of the t-th traversal of a complete playback: what
\* lies between the repeat pauses t-1 and t, R being the places of the repeat
\* pauses.
SegFrom(R, t) == IF t = 1 THEN 1 ELSE R[t - 1] + 1

SegTo(R, t) == R[t] - 1

\* The calls and sleeps of the t-th traversal, without the bridge's answers.
Segment(P, R, t) ==
    [k \in 1..(SegTo(R, t) - SegFrom(R, t) + 1) |->
        << P[SegFrom(R, t) + k - 1].op, P[SegFrom(R, t) + k - 1].arg >>]

\* C5: in a complete playback the blinks are those of the message's symbols,
\* round after round; exactly one pause of one dot length follows the blink of
\* every symbol that is not the last of its character, and no pause of one dot
\* length follows the blink of the last symbol of a character.
C5_IntraGap ==
    PlayedOut =>
        LET P == Played
            B == BlinkWaits(P)
            syms == SymbolsOf(msg)
        IN  /\ Len(B) = repeat * Len(syms)
            /\ \A g \in 1..Len(B) :
                  LET sym == SymbolOfBlink(syms, g)
                      last == sym.s = Len(msg[sym.w][sym.c])
                  IN  PausesIn(P, GapFrom(B, g), GapTo(P, B, g), speed.dot)
                          = IF last THEN 0 ELSE 1

\* C6: in a complete playback, exactly one letter gap follows the last blink
\* of every character that is not the last of its word, no letter gap follows
\* any other blink, and there is no letter gap anywhere else.
C6_LetterGap ==
    PlayedOut =>
        LET P == Played
            B == BlinkWaits(P)
            syms == SymbolsOf(msg)
        IN  /\ Len(B) = repeat * Len(syms)
            /\ \A g \in 1..Len(B) :
                  LET sym == SymbolOfBlink(syms, g)
                      due == /\ sym.s = Len(msg[sym.w][sym.c])
                             /\ sym.c < Len(msg[sym.w])
                  IN  PausesIn(P, GapFrom(B, g), GapTo(P, B, g), speed.letter_space)
                          = IF due THEN 1 ELSE 0
            /\ PausesIn(P, 1, Len(P), speed.letter_space) = repeat * LetterGapsOf(msg)

\* A complete playback, repeated, of a message with a word of two characters.
C6_Witness ==
    /\ PlayedOut
    /\ repeat = 2
    /\ \E w \in 1..Len(msg) : Len(msg[w]) >= 2
    /\ PausesIn(Played, 1, Len(Played), speed.letter_space) >= 2

\* C7: in every traversal of a complete playback there are as many word gaps
\* as the message has words but one, and the q-th of them comes after every
\* blink of the words 1..q and before every blink of the later words: one word
\* gap after each word except the last, and none anywhere else.
C7_WordGap ==
    PlayedOut =>
        LET P == Played
            R == RepeatPauses(P)
            syms == SymbolsOf(msg)
            IsWordGap(Q, k) == PauseOf(Q, k, speed.space)
            G == IndicesOf(P, IsWordGap)
        IN  /\ Len(R) = repeat
            /\ \A t \in 1..repeat :
                  LET gaps == SelectSeq(G, LAMBDA k : SegFrom(R, t) <= k /\ k <= SegTo(R, t))
                  IN  /\ Len(gaps) = WordGapsOf(msg)
                      /\ \A q \in 1..Len(gaps) :
                            BlinksIn(P, SegFrom(R, t), gaps[q])
                                = Cardinality({n \in 1..Len(syms) : syms[n].w <= q})
                      /\ BlinksIn(P, SegFrom(R, t), SegTo(R, t)) = Len(syms)

\* A complete playback of a message of two words that both blink.
C7_Witness ==
    /\ PlayedOut
    /\ repeat >= 1
    /\ Len(msg) = 2 /\ msg[1] # <<>> /\ msg[2] # <<>>
    /\ PausesIn(Played, 1, Len(Played), speed.space) = repeat

IsEncodable(ch) == ch \in DOMAIN M

\* The message without the words that have no character left.
WithoutEmptyWords(m) == SelectSeq(m, LAMBDA word : word # <<>>)

\* C8: a word made only of characters the table lacks translates to an empty
\* character list, and playback emits nothing for it: every traversal of a
\* complete playback has the word gaps and the letter gaps of the message
\* without such words, and no more.
C8_NoStrayGap ==
    /\ LET words == split(upper(text))
       IN  \A w \in 1..Len(words) :
              (\A k \in 1..Len(words[w]) : ~IsEncodable(words[w][k])) =>
                  (w \in 1..Len(msg) /\ msg[w] = <<>>)
    /\ PlayedOut =>
          LET P == Played
              R == RepeatPauses(P)
          IN  /\ Len(R) = repeat
              /\ \A t \in 1..repeat :
                    /\ PausesIn(P, SegFrom(R, t), SegTo(R, t), speed.space)
                          = WordGapsOf(WithoutEmptyWords(msg))
                    /\ PausesIn(P, SegFrom(R, t), SegTo(R, t), speed.letter_space)
                          = LetterGapsOf(WithoutEmptyWords(msg))

\* C9: a complete playback with repeat count n traverses the message n times:
\* it holds exactly n repeat pauses, the last call of playback is one of them,
\* and what lies before each of them is one traversal of the message, the same
\* every time, with the message's blinks and only the word gaps and letter
\* gaps a single traversal has.
C9_Repeat ==
    PlayedOut =>
        LET P == Played
            R == RepeatPauses(P)
        IN  /\ rep = repeat
            /\ Len(R) = repeat
            /\ repeat >= 1 => R[repeat] = Len(P)
            /\ \A t \in 1..repeat :
                  /\ Segment(P, R, t) = Segment(P, R, 1)
                  /\ BlinksIn(P, SegFrom(R, t), SegTo(R, t)) = Len(SymbolsOf(msg))
                  /\ PausesIn(P, SegFrom(R, t), SegTo(R, t), speed.space) = WordGapsOf(msg)
                  /\ PausesIn(P, SegFrom(R, t), SegTo(R, t), speed.letter_space)
                        = LetterGapsOf(msg)

\* A complete playback that went twice through a message of two words.
C9_Witness ==
    /\ PlayedOut
    /\ repeat = 2
    /\ Len(msg) = 2 /\ Len(SymbolsOf(msg)) >= 2
    /\ Len(RepeatPauses(Played)) = 2

IsCli(e) == e.ph = "cli"

WpmLine == <<"WPM must be positive">>

\* C10 as stated: whenever --wpm is <= 0 the program fails with the wpm error
\* before a session is opened and without any remote call.
C10_Original ==
    args.wpm <= 0 =>
        /\ initial_state = None
        /\ trace = <<>>
        /\ pc = "done" => (status = "exit1" /\ stderr = <<WpmLine>>)

\* C10, amended: with --wpm <= 0 no lamp session is ever opened and no call
\* reaches a lamp; and when the run is a playback run (no --setup, no --list,
\* configuration file loaded) the program makes no remote call at all and ends
\* with exit status 1 after printing "WPM must be positive".
C10_WpmRejected ==
    args.wpm <= 0 =>
        /\ initial_state = None
        /\ \A k \in 1..Len(trace) : IsCli(trace[k])
        /\ (~args.setup /\ args.config = "loaded" /\ ~args.list) =>
              /\ trace = <<>>
              /\ pc = "done" => (status = "exit1" /\ stderr = <<WpmLine>>)

\* A playback run with --wpm 0 that has ended.
C10_Witness ==
    /\ pc = "done"
    /\ args.wpm = 0 /\ ~args.setup /\ args.config = "loaded" /\ ~args.list /\ args.playable
    /\ status = "exit1"
    /\ trace = <<>>

\* ------------------------------------------------------- failed calls

IsWrite(e) == e.op \in {"set_state", "set_on"}

\* The call raised: a call that failed at transport level, a read of the lamp
\* that did not bring a state, or a list_lamps that did not bring the lamps.
Raised(e) == e.resp = "transport" \/ (e.op \in {"get", "list_lamps"} /\ e.resp # "ok")

\* The program met an exception that no remote call made: in setup (no line
\* on standard input, a config that cannot be written), in loading the
\* config, or on a --wpm or --repeat without a value.
RaisedLocally ==
    \/ args.setup /\ (~args.stdin \/ ~args.writable)
    \/ args.config = "raises"
    \/ args.wpm = NoValue
    \/ repeat = NoValue

\* The writes whose response array held an error entry.
ErrorWrites == SelectSeq(trace, LAMBDA e : IsWrite(e) /\ e.resp \in ErrorPayloads)

\* The lines that report a bridge error of a write.
WriteReports == SelectSeq(stderr, LAMBDA line : line = HueErrorLine("set_lamp"))

\* C11: every write whose response array holds an error entry is reported, one
\* line with the context of the write for each of them, and the program ends
\* with an exception only when a call raised or the exception has nothing to
\* do with the bridge.
C11_ErrorsReported ==
    /\ Len(WriteReports) = Len(ErrorWrites)
    /\ status = "raised" => (RaisedLocally \/ \E k \in 1..Len(trace) : Raised(trace[k]))

\* The calls and sleeps of playback so far, without the bridge's answers.
PlayOps == [k \in 1..Len(Played) |-> << Played[k].op, Played[k].arg >>]

\* What Lamp.blink(duration) does.
RefBlink(b, sp) ==
    << <<"set_on", SetOnBody(TRUE)>>, <<"sleep", BlinkDuration(b, sp)>>,
       <<"set_on", SetOnBody(FALSE)>> >>

\* What blink_morse_word(morse_word, speed) does.
RefWord(morse_word, sp) ==
    Flatten([c \in 1..Len(morse_word) |->
        Flatten([s \in 1..Len(morse_word[c]) |->
            RefBlink(morse_word[c][s], sp)
            \o (IF IntraGapDue(s - 1, morse_word, morse_word[c])
                THEN << <<"sleep", sp.dot>> >> ELSE <<>>)])
        \o (IF LetterGapDue(c - 1, morse_word)
            THEN << <<"sleep", sp.letter_space>> >> ELSE <<>>)])

\* What blink_morse_message(morse_msg, speed) does.
RefMessage(morse_msg, sp) ==
    Flatten([w \in 1..Len(morse_msg) |->
        RefWord(morse_msg[w], sp)
        \o (IF WordGapDue(w - 1, morse_msg) THEN << <<"sleep", sp.space>> >> ELSE <<>>)])

\* What the repeat loop does when no call raises.
RefPlay(morse_msg, sp, n) ==
    Flatten([t \in 1..n |-> RefMessage(morse_msg, sp) \o << <<"sleep", sp.repeat_pause>> >>])

\* C12: whatever bridge errors the writes of playback were answered with, a
\* with body in which no write raised has issued every blink and every pause
\* of the message, for every repeat and in order, when it ends; and the
\* release protocol then runs.
C12_ErrorsDoNotAbort ==
    /\ PlayedOut => PlayOps = RefPlay(msg, speed, repeat)
    /\ (pc = "done" /\ initial_state # None /\ ~exc) => Releases = 1

\* A playback of two rounds whose first write was answered with an error, run
\* to its end and released.
C12_Witness ==
    /\ pc = "done" /\ ~exc /\ Releases = 1
    /\ repeat = 2
    /\ Len(Played) > 3
    /\ Played[1].resp = "hue_error"
    /\ PlayOps = RefPlay(msg, speed, repeat)
    /\ WriteReports # <<>>

\* C13: once a write made after the acquire has failed at transport level, no
\* blink and no pause follows it: the program is in the release protocol or at
\* its end, what follows in the trace is the release (its read, then at most
\* one write of the baseline), a failed write of the release is the last call
\* of all, and the program ends with the exception.
C13_TransportAborts ==
    \A k \in 1..Len(trace) :
        (IsWrite(trace[k]) /\ trace[k].resp = "transport") =>
            /\ pc \in {"exit_read", "exit_write", "done"}
            /\ \A m \in (k + 1)..Len(trace) : trace[m].ph = "release"
            /\ trace[k].ph = "release" => k = Len(trace)
            /\ \A m \in 1..Len(trace) :
                  IsReleaseWrite(trace[m]) =>
                      trace[m].arg \in { SetStateBody(initial_state[1]),
                                         SetOnBody(initial_state[1].on) }
            /\ pc = "done" => (status = "raised" /\ Releases = 1)

\* A blink's write failed at transport level in the middle of playback; the
\* release re-read the lamp and wrote the baseline's power, and the program
\* ended with the exception.
C13_Witness ==
    /\ pc = "done" /\ status = "raised"
    /\ Len(msg) >= 1
    /\ \E k \in 1..Len(trace) :
          /\ trace[k].ph = "play" /\ IsWrite(trace[k]) /\ trace[k].resp = "transport"
          /\ Len(trace) = k + 2
          /\ trace[k + 1].op = "get" /\ trace[k + 1].resp = "ok"
          /\ IsReleaseWrite(trace[k + 2]) /\ trace[k + 2].resp = "ok"
    /\ lamp = initial_state[1]

\* The acquire read did not bring a state.
AcquireFailed == \E k \in 1..Len(trace) : trace[k].ph = "acquire" /\ trace[k].resp # "ok"

\* C14: when the acquire read fails, answers with an error or brings no usable
\* state, the program ends there with the exception: there is no baseline and
\* no desired state, the read is the only call ever made (no write, no sleep,
\* no release) and the lamp is never touched.
C14_AcquireFails ==
    AcquireFailed =>
        /\ pc = "done" /\ status = "raised"
        /\ initial_state = None /\ desired_state = None
        /\ Len(trace) = 1
        /\ lamp \in Lamps
        /\ Releases = 0

\* An acquire read that brought an object without a state.
C14_Witness ==
    /\ pc = "done" /\ status = "raised"
    /\ trace = << Ev("acquire", "get", None, "malformed") >>
    /\ initial_state = None

\* ------------------------------------------------------------ translate

\* The places of text where a whitespace-separated token starts.
TokenStarts(t) ==
    SelectSeq([k \in 1..Len(t) |-> k],
              LAMBDA k : t[k] \notin Whitespace /\ (k = 1 \/ t[k - 1] \in Whitespace))

\* The token of t that starts at st: up to the next whitespace or the end.
TokenAt(t, st) ==
    LET e == CHOOSE e \in st..Len(t) :
                 /\ \A i \in st..e : t[i] \notin Whitespace
                 /\ e = Len(t) \/ t[e + 1] \in Whitespace
    IN  SubSeq(t, st, e)

\* The upper case form of one character, as str.upper gives it: a sequence of
\* one or more characters.
UpperOf(ch) == IF ch \in DOMAIN ToUpper THEN ToUpper[ch] ELSE <<ch>>

\* The lower case form of one character, as str.lower gives it: that of the
\* Kelvin sign is k and that of the Angstrom sign is a with a ring, that of an
\* upper case letter is the letter str.upper turns into it (i for I and s for
\* S, not the dotless i or the long s), and every other character of the model
\* is its own.
LowerOf(ch) ==
    LET plain == DOMAIN ToUpper \ {"inodot", "longs"}
    IN  IF ch = "Kelvin" THEN "k"
        ELSE IF ch = "Angstrom" THEN "aring"
        ELSE IF \E l \in plain : ToUpper[l] = <<ch>>
             THEN CHOOSE l \in plain : ToUpper[l] = <<ch>>
             ELSE ch

\* A character str.upper turns into ch, when there is one, and else ch.
PreUpperOf(ch) ==
    IF \E l \in DOMAIN ToUpper : ToUpper[l] = <<ch>>
    THEN CHOOSE l \in DOMAIN ToUpper : ToUpper[l] = <<ch>>
    ELSE ch

\* The table codes of the characters of a token that have one, in order: a
\* character has one when the table holds it or holds the one character that
\* is its upper case form.
CodesOf(token) ==
    LET known == SelectSeq(token, LAMBDA ch : Len(UpperOf(ch)) = 1
                                                /\ UpperOf(ch)[1] \in DOMAIN M)
    IN  [k \in 1..Len(known) |-> M[UpperOf(known[k])[1]]]

\* The table codes of the characters of the upper case form of a token that the
\* table holds, in order.
UpperCodesOf(token) ==
    LET up == Flatten([k \in 1..Len(token) |-> UpperOf(token[k])])
        known == SelectSeq(up, LAMBDA ch : ch \in DOMAIN M)
    IN  [k \in 1..Len(known) |-> M[known[k]]]

\* C15 as it was stated: translate gives one word entry per
\* whitespace-separated token of the text, in order; the entry of a token
\* holds, in order, the table code of every character of the token that has
\* one and nothing for the others (so it is empty when no character has one);
\* every character entry is a non-empty sequence of dots and dashes; and the
\* text in upper case and the text in lower case translate to the same message.
C15_Original ==
    pc = "translated" =>
        LET starts == TokenStarts(text)
        IN  /\ Len(msg) = Len(starts)
            /\ \A w \in 1..Len(msg) : msg[w] = CodesOf(TokenAt(text, starts[w]))
            /\ \A w \in 1..Len(msg) : \A c \in 1..Len(msg[w]) :
                  /\ msg[w][c] # <<>>
                  /\ \A k \in 1..Len(msg[w][c]) : msg[w][c][k] \in {".", "-"}
            /\ translate(Flatten([k \in 1..Len(text) |-> UpperOf(text[k])])) = msg
            /\ translate([k \in 1..Len(text) |-> LowerOf(text[k])]) = msg

\* C15: translate gives one word entry per whitespace-separated token of the
\* text, in order; the entry of a token holds, in order, the table code of
\* every character of the token's upper case form that the table holds and
\* nothing else (so it is empty when the table holds none, and it has two
\* entries for a sharp s, whose upper case form is SS); every character entry
\* is a non-empty sequence of dots and dashes; the text in upper case
\* translates to the same message, and so does the text with every character
\* replaced by one that has it as its upper case form.
C15_Translate ==
    pc = "translated" =>
        LET starts == TokenStarts(text)
        IN  /\ Len(msg) = Len(starts)
            /\ \A w \in 1..Len(msg) : msg[w] = UpperCodesOf(TokenAt(text, starts[w]))
            /\ \A w \in 1..Len(msg) : \A c \in 1..Len(msg[w]) :
                  /\ msg[w][c] # <<>>
                  /\ \A k \in 1..Len(msg[w][c]) : msg[w][c][k] \in {".", "-"}
            /\ translate(Flatten([k \in 1..Len(text) |-> UpperOf(text[k])])) = msg
            /\ translate([k \in 1..Len(text) |-> PreUpperOf(text[k])]) = msg

\* A text of two tokens parted by U+0085, the first without any character of
\* the table, the second a sharp s and a lower case letter: an empty word and
\* a word of S, S and A.
C15_Witness ==
    /\ pc = "translated"
    /\ text = <<"#", "x85", "szlig", "a">>
    /\ msg = << <<>>, << <<".", ".", ".">>, <<".", ".", ".">>, <<".", "-">> >> >>

\* ------------------------------------------------------------ LampState

\* v lies in [lo, hi].
Within(lo, hi, v) == ~IsNaN(v) /\ lo <= v /\ v <= hi

\* C16: every LampState that is constructed has bri in [0, 254], ct in
\* [154, 500], hue in [0, 65535] and sat in [0, 254] when present, and an xy of
\* at most the first two coordinates given, each in [0, 1], when present; an
\* optional field given as absent is absent; and a LampState constructed from
\* the fields of a constructed one equals it.
C16_InRange ==
    /\ pc \in {"constructed", "reconstructed"} =>
          LET given == lamp
              s == initial_state[1]
          IN  /\ s.on = given.on
              /\ Within(0, 254, s.bri)
              /\ Within(154, 500, s.ct)
              /\ (given.hue = None) = (s.hue = None)
              /\ s.hue # None => Within(0, 65535, s.hue[1])
              /\ (given.sat = None) = (s.sat = None)
              /\ s.sat # None => Within(0, 254, s.sat[1])
              /\ (given.xy = None) = (s.xy = None)
              /\ s.xy # None =>
                    /\ Len(s.xy[1]) = Min2(2, Len(given.xy[1]))
                    /\ \A k \in 1..Len(s.xy[1]) : Within(0, 1 * XYUnit, s.xy[1][k])
    /\ pc = "reconstructed" => current = initial_state

\* --------------------------------------------------------------- blinks

\* C17: a complete playback of a message of S symbols with repeat count n
\* holds exactly n * S blinks, those of the message's symbols in order, round
\* after round; each blink is set_on(True), a wait of one dot length for a dot
\* and of one dash length, which is three dot lengths, for a dash, and
\* set_on(False), one right after the other; and playback makes no other write.
C17_Blinks ==
    PlayedOut =>
        LET P == Played
            B == BlinkWaits(P)
            syms == SymbolsOf(msg)
        IN  /\ Len(B) = repeat * Len(syms)
            /\ SameDur(speed.dash, Times(3, speed.dot))
            /\ \A g \in 1..Len(B) :
                  LET b == SymbolOfBlink(syms, g).b
                  IN  /\ P[B[g] - 1].op = "set_on"
                      /\ P[B[g] - 1].arg = SetOnBody(TRUE)
                      /\ SameDur(P[B[g]].arg, IF b = "." THEN speed.dot ELSE speed.dash)
                      /\ B[g] < Len(P)
                      /\ P[B[g] + 1].op = "set_on"
                      /\ P[B[g] + 1].arg = SetOnBody(FALSE)
            /\ Cardinality({k \in 1..Len(P) : IsWrite(P[k])}) = 2 * Len(B)

\* A complete playback that went twice through a dot and a dash.
C17_Witness ==
    /\ PlayedOut
    /\ repeat = 2
    /\ SymbolsOf(msg) # <<>>
    /\ \E n \in 1..Len(SymbolsOf(msg)) : SymbolsOf(msg)[n].b = "-"
    /\ \E n \in 1..Len(SymbolsOf(msg)) : SymbolsOf(msg)[n].b = "."
    /\ Len(BlinkWaits(Played)) = 2 * Len(SymbolsOf(msg))

\* --------------------------------------------------- power-only writes

\* The fields of a LampState other than on.
NonPower == {"bri", "ct", "hue", "sat", "xy"}

\* a and b differ in a field other than on.
NonPowerDiffers(a, b) == \E f \in NonPower : a[f] # b[f]

\* The body is that of set_on: the power and a transition time of zero.
IsPowerOnly(body) == DOMAIN body = {"on", "transitiontime"} /\ body.transitiontime = 0

\* C18: when the overrides passed leave the desired state equal to the
\* baseline and nobody else changes the lamp, every write of the session,
\* from acquire through release, is a set_on whose body is the power and a
\* zero transition time; and whenever a set_state is issued, before playback
\* the desired state differs from the baseline in a field other than on, and
\* at release the re-read state does.
C18_PowerOnly ==
    desired_state # None =>
        /\ (foreign = 0 /\ replace(initial_state[1], passed) = initial_state[1]) =>
              \A k \in 1..Len(trace) :
                  IsWrite(trace[k]) => (trace[k].op = "set_on" /\ IsPowerOnly(trace[k].arg))
        /\ \A k \in 1..Len(trace) :
              trace[k].op = "set_state" =>
                  /\ trace[k].ph \in {"prepare", "release"}
                  /\ trace[k].ph = "prepare" =>
                        NonPowerDiffers(replace(initial_state[1], passed), initial_state[1])
                  /\ trace[k].ph = "release" =>
                        NonPowerDiffers(current[1], initial_state[1])

\* A released session that was given a brightness the lamp already had,
\* blinked, and switched the lamp back on: power-only writes throughout.
C18_Witness ==
    /\ Released /\ foreign = 0
    /\ passed.bri # None
    /\ replace(initial_state[1], passed) = initial_state[1]
    /\ \E k \in 1..Len(trace) : trace[k].ph = "play" /\ trace[k].op = "set_on"
    /\ Len(ReleaseWrites) = 1 /\ ReleaseWrites[1].op = "set_on"

\* ------------------------------------------------------------ the baseline

\* C19: once the baseline is captured at acquire, no step of the program
\* changes it: the overrides and the forced on = False go to desired_state,
\* and release overwrites the on field of the state it re-read.
C19_BaselineFrozen ==
    [][initial_state # None => initial_state' = initial_state]_vars

\* A released session of a lamp that was on: the desired state was overridden
\* and forced off, the re-read state had its on field overwritten, and the
\* baseline still says on.
C19_Witness ==
    /\ Released
    /\ initial_state[1].on
    /\ ~desired_state[1].on
    /\ NonPowerDiffers(desired_state[1], initial_state[1])
    /\ ~currently_on[1] /\ current[1].on

\* ------------------------------------------------------- the lamp's power

\* The positions of the with body from the wait after the first write to its
\* end, but those between the two writes of a blink.
OffPcs ==
    { "prepare_sleep1", "prepare_sleep2", "range", "for_repeat", "for_word",
      "for_char", "for_sym", "blink_on", "intra_gap", "letter_gap", "word_gap",
      "repeat_pause" }

\* The positions between the two writes of a blink.
BlinkPcs == { "blink_sleep", "blink_off" }

IsPrepareWrite(e) == e.ph = "prepare" /\ IsWrite(e)

\* C20: as long as every call has succeeded and nobody else has changed the
\* lamp: once the program is past its first write, that write is the only one
\* made before the first blink, it is set_state(desired_state with on = False)
\* when an override differs from the baseline and set_on(False) otherwise, and
\* the lamp is off; the lamp is on between the two writes of a blink; and it is
\* off everywhere else in playback, so before every intra-character, letter,
\* word and repeat pause and until release starts.
C20_OffBetweenBlinks ==
    /\ pc \in OffPcs =>
          \/ ~Undisturbed
          \/ /\ ~lamp.on
             /\ LET W == SelectSeq(trace, IsPrepareWrite)
                    differs == OverrideDiffers(replace(initial_state[1], passed),
                                               initial_state[1])
                IN  /\ Len(W) = 1
                    /\ W[1].arg.on = FALSE
                    /\ W[1].op = IF differs THEN "set_state" ELSE "set_on"
                    /\ W[1].arg = IF differs
                                  THEN SetStateBody([replace(initial_state[1], passed)
                                                        EXCEPT !.on = FALSE])
                                  ELSE SetOnBody(FALSE)
                    /\ trace[2] = W[1]
    /\ pc \in BlinkPcs => (lamp.on \/ ~Undisturbed)
    /\ (pc = "exit_read" /\ ~exc) => (~lamp.on \/ ~Undisturbed)

\* A lamp that was on at acquire, about to pause between two words after a
\* blink, every call having succeeded: it is off.
C20_Witness ==
    /\ pc = "word_gap" /\ WordGapDue(wi, msg)
    /\ Undisturbed
    /\ initial_state[1].on
    /\ Played # <<>>
    /\ ~lamp.on

====
